---- MODULE Spec2Model ----
(***************************************************************************)
(* Model of the open-addressed hash table of src/src/lib.rs               *)
(* (hash_table::hash_map::HashTable<T>).  Collision chains are rings      *)
(* threaded through the bucket array by the probe-link field of `meta`.   *)
(***************************************************************************)
EXTENDS Integers, Sequences, FiniteSets, TLC

(***************************************************************************)
(* Bounds of the model.                                                    *)
(***************************************************************************)
\* largest initial_capacity handed to with_capacity
MaxRequest == 3
\* largest initial_capacity of the tables whose probe sequences are run
MaxProbeRequest == 16
\* log2 of the largest capacity of the tables whose shift hash is run with
MaxHashBits == 10

(***************************************************************************)
(* Program constants.                                                      *)
(***************************************************************************)
USIZE_BITS == 64
MIN_BITS == 1
\* T = usize: BUCKET_SIZE = 24, usize::MAX / 24 has 4 leading zeros
MAX_BITS == 60
MIN_CAPACITY == 2

\* a usize key is kept as its 8 bytes, least significant first
ZeroKey == <<0, 0, 0, 0, 0, 0, 0, 0>>
\* 2654435769 = 0x9E3779B9, least significant byte first
MULTIPLIER == <<185, 121, 55, 158>>

\* the keys the callers use: 0 and three of the sample keys of main.rs:20,
\* 5144252277360976470, 16424795377300343152 and 3721955201717284576
KeyList ==
  << ZeroKey,
     <<86, 98, 24, 219, 48, 14, 100, 71>>,
     <<112, 9, 119, 148, 95, 152, 240, 227>>,
     <<224, 174, 70, 68, 137, 10, 167, 51>> >>

Keys == {KeyList[i] : i \in 1..Len(KeyList)}
\* three more sample keys of main.rs:20, 16415711117346800178,
\* 9561768724747383243 and 4181431450213987588, for the callers that fill
\* and then drain the table
DrainKeyList ==
  KeyList \o << <<50, 2, 227, 124, 73, 82, 208, 227>>,
                <<203, 241, 1, 167, 254, 57, 178, 132>>,
                <<4, 181, 166, 242, 191, 109, 7, 58>> >>
DrainKeys == {DrainKeyList[i] : i \in 1..Len(DrainKeyList)}

\* the keys hash is run on: those above and every key whose bytes are 0x00
\* or 0xff, usize::MAX among them
HashKeys == DrainKeys \cup [1..8 -> {0, 255}]
MaxKey == [i \in 1..8 |-> 255]
\* the values the callers store (T = usize); T::default() is 0
Values == {1, 2}
DefaultValue == 0
\* every key is stored with value 1; one key is also stored with value 2,
\* so that an overwrite can change the value
ValuesFor(key) == IF key = KeyList[3] THEN Values ELSE {1}

(***************************************************************************)
(* Machine arithmetic.                                                     *)
(***************************************************************************)
Max(a, b) == IF a >= b THEN a ELSE b
Min(a, b) == IF a <= b THEN a ELSE b

RECURSIVE Pow2(_)
Pow2(n) == IF n = 0 THEN 1 ELSE 2 * Pow2(n - 1)

\* number of significant bits of n, i.e. USIZE_BITS - n.leading_zeros()
RECURSIVE BitLength(_)
BitLength(n) == IF n = 0 THEN 0 ELSE 1 + BitLength(n \div 2)

leading_zeros(n) == USIZE_BITS - BitLength(n)

is_power_of_two(n) == n > 0 /\ Pow2(BitLength(n) - 1) = n

ByteAt(s, i) == IF i < Len(s) THEN s[i + 1] ELSE 0

\* sum over j in 0..t of a[j] * b[t - j]: column t of the long multiplication
RECURSIVE ColumnSum(_, _, _, _)
ColumnSum(a, b, t, j) ==
  IF j > t THEN 0
  ELSE ByteAt(a, j) * ByteAt(b, t - j) + ColumnSum(a, b, t, j + 1)

RECURSIVE MulBytes(_, _, _, _)
MulBytes(a, b, t, carry) ==
  IF t = 8 THEN <<>>
  ELSE LET s == ColumnSum(a, b, t, 0) + carry
       IN  <<s % 256>> \o MulBytes(a, b, t + 1, s \div 256)

\* the product with the carry out of bit 63 kept as a ninth byte
RECURSIVE MulBytesCarry(_, _, _, _)
MulBytesCarry(a, b, t, carry) ==
  IF t = 8 THEN <<carry % 256>>
  ELSE LET s == ColumnSum(a, b, t, 0) + carry
       IN  <<s % 256>> \o MulBytesCarry(a, b, t + 1, s \div 256)

mul_keeping_carry(key, m) == MulBytesCarry(key, m, 0, 0)

\* key.wrapping_mul(m): the low 64 bits of the product
wrapping_mul(key, m) == MulBytes(key, m, 0, 0)

\* the number made of bytes q, q+1, ... of p
RECURSIVE BytesFrom(_, _)
BytesFrom(p, q) ==
  IF q >= Len(p) THEN 0 ELSE p[q + 1] + 256 * BytesFrom(p, q + 1)

\* p >> shift for a 64-bit p
ShiftRight(p, shift) ==
  IF shift >= USIZE_BITS THEN 0
  ELSE BytesFrom(p, shift \div 8) \div Pow2(shift % 8)

\* key.wrapping_mul(2654435769) of the keys of the callers, computed once
Products == [key \in DrainKeys |-> wrapping_mul(key, MULTIPLIER)]

\* key.wrapping_mul(2654435769) of any key
Product(key) ==
  IF key \in DrainKeys THEN Products[key] ELSE wrapping_mul(key, MULTIPLIER)

\* hash that keeps the low 64 - shift bits of the product, not the high ones
hash_low_bits(key, shift) == Product(key)[1] % Pow2(USIZE_BITS - shift)

hash(key, shift) == ShiftRight(Product(key), shift)

should_grow(cnt, capacity) == cnt >= (capacity - (capacity \div 16))

should_shrink(cnt, capacity) == cnt <= (capacity \div 4) + (capacity \div 8)

(***************************************************************************)
(* The metadata word.  Bit 63 is HEAD, bit 62 is EMPTY, the low 62 bits   *)
(* are the probe link; a word is kept as these three fields.               *)
(***************************************************************************)
Word(i) == [head |-> FALSE, empty |-> FALSE, probe |-> i]
HEAD_BIT_MASK == [head |-> TRUE, empty |-> FALSE, probe |-> 0]
EMPTY_BIT_MASK == [head |-> FALSE, empty |-> TRUE, probe |-> 0]

RECURSIVE OrNat(_, _)
OrNat(a, b) ==
  IF a = 0 THEN b
  ELSE IF b = 0 THEN a
  ELSE Max(a % 2, b % 2) + 2 * OrNat(a \div 2, b \div 2)

\* w | x
BitOr(w, x) ==
  [head |-> w.head \/ x.head, empty |-> w.empty \/ x.empty,
   probe |-> OrNat(w.probe, x.probe)]
\* w & HEAD_BIT_MASK
AndHead(w) == [head |-> w.head, empty |-> FALSE, probe |-> 0]
\* w ^ HEAD_BIT_MASK
XorHead(w) == [w EXCEPT !.head = ~w.head]
\* i & mask, for mask = 2^b - 1
AndMask(i, m) == i % (m + 1)

\* `i += n; i &= self.mask` with twice the step
probe_next_doubled(i, n, m) == AndMask(i + 2 * n, m)

\* lines 173-174 and 198-199: `i += n; i &= self.mask`
probe_next(i, n, m) == AndMask(i + n, m)

Bucket(m, k, v) == [meta |-> m, key |-> k, value |-> v]
\* Bucket::default()
DefaultBucket == Bucket(EMPTY_BIT_MASK, ZeroKey, DefaultValue)

None == <<>>
Some(v) == <<v>>

(***************************************************************************)
(* The table.  `buckets` is the heap block of the Vec, indexed from 0,    *)
(* and `len` the Vec's length (= capacity()); entries of the block at     *)
(* len and above are the Vec's spare capacity, which truncate() leaves    *)
(* in place and resize() overwrites.  `status` is "ok" while the process  *)
(* can take calls, "fault" once a call has trapped and "hang" once a call *)
(* loops forever.  `build` is the way this build resolves a pointer       *)
(* offset that carries flag bits: "trap" (checked build: the offset       *)
(* overflows and the call aborts) or "wrap" (unchecked build: offset      *)
(* times the bucket size wraps to the bucket named by the probe bits).    *)
(* `stored` is the set of keys inserted and not deleted since, and `last` *)
(* records the last call and what it returned.  `script` is the progress  *)
(* of a caller that inserts distinct keys and then deletes them in order, *)
(* as main.rs does.  `probe` is the progress of a probe loop of emplace    *)
(* that is followed pass by pass.  `linked` is the table of the pointer-   *)
(* linked variants with the last call made on it.                          *)
(***************************************************************************)
VARIABLES count, shift, mask, buckets, len, status, build, stored, last,
          script, probe, linked

vars ==
  <<count, shift, mask, buckets, len, status, build, stored, last, script,
    probe, linked>>

\* the table as one value; st is the status of the call under way, and
\* dropped tells whether a probe loop of emplace has run out in that call
Table ==
  [count |-> count, shift |-> shift, mask |-> mask, buckets |-> buckets,
   len |-> len, st |-> "ok", build |-> build, dropped |-> FALSE]

capacity(t) == t.len
AllocLen(t) == Cardinality(DOMAIN t.buckets)

\* results of a pointer computation or walk that did not yield a bucket
Fault == -1
Hang == -2
\* buckets.add(n) for a word n: the index of the bucket the pointer names
Addr(t, n) ==
  IF (n.head \/ n.empty) /\ t.build = "trap" THEN Fault
  ELSE IF n.probe >= AllocLen(t) THEN Fault
  ELSE n.probe

Stop(t, s) == [t EXCEPT !.st = s]
\* the `while n < self.capacity()` loop ended without finding an EMPTY bucket
Exhausted(t) == [t EXCEPT !.dropped = TRUE]
SetBucket(t, i, b) == [t EXCEPT !.buckets[i] = b]
SetMeta(t, i, m) == [t EXCEPT !.buckets[i].meta = m]

\* steps after which a walk that only reads must have revisited a bucket
WalkFuel(t) == AllocLen(t) + 2
\* steps allowed to the loops of rehash_non_zero and rehash_zero
RehashFuel(t) == 4 * AllocLen(t) + 4

with_capacity(initial_capacity) ==
  LET bits == Max(Min(USIZE_BITS - leading_zeros(initial_capacity), MAX_BITS),
                  MIN_BITS)
      cap == Pow2(bits)
  IN  [count |-> 0, shift |-> USIZE_BITS - bits, mask |-> cap - 1,
       buckets |-> [i \in 0..(cap - 1) |-> DefaultBucket], len |-> cap]

(***************************************************************************)
(* get                                                                     *)
(***************************************************************************)
Result(s, v) == [st |-> s, val |-> v]

RECURSIVE get_loop(_, _, _, _, _, _)
get_loop(t, key, h, b, n, fuel) ==
  IF t.buckets[b].key = key THEN Result("ok", Some(t.buckets[b].value))
  ELSE IF n = Word(h) THEN Result("ok", None)
  ELSE IF fuel = 0 THEN Result("hang", None)
  ELSE LET a == Addr(t, n)
       IN  IF a = Fault THEN Result("fault", None)
           ELSE get_loop(t, key, h, a, t.buckets[a].meta, fuel - 1)

get(t, key) ==
  LET h == hash(key, t.shift)
      n == t.buckets[h].meta
  IN  IF n.head THEN get_loop(t, key, h, h, XorHead(n), WalkFuel(t))
      ELSE Result("ok", None)

(***************************************************************************)
(* emplace                                                                 *)
(***************************************************************************)
Ret(t, r) == [t |-> t, ret |-> r]

\* lines 171-186 without line 177: the EMPTY bucket is filled, but bucket b
\* is not made to point to it
RECURSIVE emplace_append_unlinked(_, _, _, _, _, _, _)
emplace_append_unlinked(t, key, value, h, i, b, n) ==
  IF ~(n < capacity(t)) THEN Ret(Exhausted(t), None)
  ELSE LET j == probe_next(i, n, t.mask)
       IN  IF t.buckets[j].meta.empty
           THEN Ret(SetBucket(t, j, Bucket(Word(h), key, value)), None)
           ELSE emplace_append_unlinked(t, key, value, h, j, b, n + 1)

\* the append with the tail's link written without its HEAD bit
RECURSIVE emplace_append_clearing_head(_, _, _, _, _, _, _)
emplace_append_clearing_head(t, key, value, h, i, b, n) ==
  IF ~(n < capacity(t)) THEN Ret(Exhausted(t), None)
  ELSE LET j == probe_next(i, n, t.mask)
       IN  IF t.buckets[j].meta.empty
           THEN LET t1 == SetMeta(t, b, Word(j))
                    t2 == SetBucket(t1, j, Bucket(Word(h), key, value))
                IN  Ret(t2, None)
           ELSE emplace_append_clearing_head(t, key, value, h, j, b, n + 1)

\* lines 171-186: probe for an EMPTY bucket and append it behind bucket b
RECURSIVE emplace_append(_, _, _, _, _, _, _)
emplace_append(t, key, value, h, i, b, n) ==
  IF ~(n < capacity(t)) THEN Ret(Exhausted(t), None)
  ELSE LET j == probe_next(i, n, t.mask)
       IN  IF t.buckets[j].meta.empty
           THEN LET t1 == SetMeta(t, b,
                            BitOr(AndHead(t.buckets[b].meta), Word(j)))
                    t2 == SetBucket(t1, j, Bucket(Word(h), key, value))
                IN  Ret(t2, None)
           ELSE emplace_append(t, key, value, h, j, b, n + 1)

\* lines 155-170: walk the chain of the HEAD bucket h looking for key
RECURSIVE emplace_walk(_, _, _, _, _, _, _, _)
emplace_walk(t, key, value, h, i, b, n, fuel) ==
  IF t.buckets[b].key = key
  THEN Ret([t EXCEPT !.buckets[b].value = value], Some(t.buckets[b].value))
  ELSE IF n = Word(h) THEN emplace_append(t, key, value, h, i.probe, b, 1)
  ELSE IF fuel = 0 THEN Ret(Stop(t, "hang"), None)
  ELSE LET a == Addr(t, n)
       IN  IF a = Fault THEN Ret(Stop(t, "fault"), None)
           ELSE emplace_walk(t, key, value, h, n, a, t.buckets[a].meta,
                             fuel - 1)

\* lines 188-194: the bucket whose probe link is h, found from link n
RECURSIVE emplace_pred(_, _, _, _)
emplace_pred(t, h, n, fuel) ==
  IF n >= AllocLen(t) THEN Fault
  ELSE IF t.buckets[n].meta.probe = h THEN n
  ELSE IF fuel = 0 THEN Hang
  ELSE emplace_pred(t, h, t.buckets[n].meta.probe, fuel - 1)

\* lines 196-216: probe for an EMPTY bucket, move the squatter of h there
RECURSIVE emplace_displace(_, _, _, _, _, _, _)
emplace_displace(t, key, value, h, i, lst, n) ==
  IF ~(n < capacity(t)) THEN Ret(Exhausted(t), None)
  ELSE LET j == probe_next(i, n, t.mask)
       IN  IF t.buckets[j].meta.empty
           THEN LET t1 == SetMeta(t, lst,
                            BitOr(AndHead(t.buckets[lst].meta), Word(j)))
                    t2 == SetBucket(t1, h,
                            Bucket(BitOr(HEAD_BIT_MASK, Word(h)), key, value))
                    t3 == SetBucket(t2, j, t1.buckets[h])
                IN  Ret(t3, None)
           ELSE emplace_displace(t, key, value, h, j, lst, n + 1)

emplace(t, key, value) ==
  LET h == hash(key, t.shift)
      n == t.buckets[h].meta
  IN  IF n.empty
      THEN Ret(SetBucket(t, h,
                 Bucket(BitOr(HEAD_BIT_MASK, Word(h)), key, value)), None)
      ELSE IF n.head
      THEN emplace_walk(t, key, value, h, Word(h), h, XorHead(n), WalkFuel(t))
      ELSE LET lst == emplace_pred(t, h, n.probe, WalkFuel(t))
           IN  IF lst = Fault THEN Ret(Stop(t, "fault"), None)
               ELSE IF lst = Hang THEN Ret(Stop(t, "hang"), None)
               ELSE emplace_displace(t, key, value, h, lst, lst, 1)

(***************************************************************************)
(* rehash_non_zero, rehash_zero, grow, shrink                              *)
(***************************************************************************)
\* self.emplace(b.key, b.value) for the bucket b at index i; the Option it
\* returns is dropped
emplace_bucket(t, i) == emplace(t, t.buckets[i].key, t.buckets[i].value).t

RECURSIVE rehash_non_zero_loop(_, _, _)

\* lines 285-298, on the table t1 that the emplace of line 280 left
rehash_non_zero_moved(t1, h, fuel) ==
  LET n == XorHead(t1.buckets[h].meta)
      next == Addr(t1, n)
      t2 == SetBucket(t1, h, t1.buckets[next])
      t3 == SetMeta(t2, next, EMPTY_BIT_MASK)
      t4 == SetMeta(t3, h, BitOr(t3.buckets[h].meta, HEAD_BIT_MASK))
  IN  IF t1.st # "ok" THEN t1
      ELSE IF n = Word(h) THEN SetMeta(t1, h, EMPTY_BIT_MASK)
      ELSE IF next = Fault THEN Stop(t1, "fault")
      ELSE IF fuel = 0 THEN Stop(t1, "hang")
      ELSE rehash_non_zero_loop(t4, h, fuel - 1)

\* the loop of lines 279-296 followed by line 298
rehash_non_zero_loop(t, h, fuel) ==
  rehash_non_zero_moved(emplace_bucket(t, h), h, fuel)

rehash_non_zero(t, h) ==
  IF t.st # "ok" THEN t
  ELSE IF t.buckets[h].meta.head THEN rehash_non_zero_loop(t, h, RehashFuel(t))
  ELSE t

\* lines 327-343, entered with i = 0
rehash_zero_head(t) ==
  LET i == 0
      h2 == hash(t.buckets[i].key, t.shift)
      n == t.buckets[i].meta.probe
      \* buckets.add(i).swap(buckets.add(n))
      s1 == SetBucket(SetBucket(t, i, t.buckets[n]), n, t.buckets[i])
      s2 == SetMeta(s1, i, BitOr(s1.buckets[i].meta, HEAD_BIT_MASK))
      s3 == SetMeta(s2, n, EMPTY_BIT_MASK)
      e1 == SetMeta(t, i, EMPTY_BIT_MASK)
  IN  IF h2 = 0 THEN t
      ELSE IF n # 0 /\ n >= AllocLen(t) THEN Stop(t, "fault")
      \* line 337 when n # 0, line 341 (where n = i) otherwise
      ELSE emplace_bucket(IF n # 0 THEN s3 ELSE e1, n)

RECURSIVE rehash_zero_loop(_, _, _, _)

\* lines 317-321, on the table t3 that the emplace of line 316 left
rehash_zero_emplaced(t3, p, h2, n, fuel) ==
  rehash_zero_loop(t3, p, IF h2 = n THEN t3.buckets[p].meta.probe ELSE n,
                   fuel - 1)

\* the loop of lines 309-326
rehash_zero_loop(t, p, i, fuel) ==
  IF t.st # "ok" THEN t
  ELSE IF i = 0 THEN rehash_zero_head(t)
  ELSE IF i >= AllocLen(t) THEN Stop(t, "fault")
  ELSE IF fuel = 0 THEN Stop(t, "hang")
  ELSE LET n == t.buckets[i].meta.probe
           h2 == hash(t.buckets[i].key, t.shift)
           t1 == SetMeta(t, p, BitOr(AndHead(t.buckets[p].meta), Word(n)))
           t2 == SetMeta(t1, i, EMPTY_BIT_MASK)
       IN  IF h2 # 0
           THEN rehash_zero_emplaced(emplace_bucket(t2, i), p, h2, n, fuel)
           ELSE rehash_zero_loop(t, i, n, fuel - 1)

rehash_zero(t) ==
  IF t.st # "ok" THEN t
  ELSE IF t.buckets[0].meta.head
  THEN rehash_zero_loop(t, 0, t.buckets[0].meta.probe, RehashFuel(t))
  ELSE t

\* Vec::resize(new_len, Bucket::default()) for new_len > len: the block is
\* reallocated when it is too small, buckets len .. new_len-1 are written
resize(t, new_len) ==
  [t EXCEPT !.len = new_len,
            !.buckets = [i \in 0..(Max(AllocLen(t), new_len) - 1) |->
                           IF i < t.len THEN t.buckets[i]
                           ELSE IF i < new_len THEN DefaultBucket
                           ELSE t.buckets[i]]]

\* the loops of lines 355-364 run upwards: [1, 2), [2, 4), ...
RECURSIVE grow_order_ascending(_, _)
grow_order_ascending(min, max) ==
  IF min > 0
  THEN grow_order_ascending((max \div 2) \div 2, max \div 2)
         \o [j \in 1..(max - min) |-> min + j - 1]
  ELSE <<>>

\* the indices that the loops of lines 355-364 hand to rehash_non_zero, in
\* the order of the calls, from `min` and `max` as they are at line 357
RECURSIVE grow_order(_, _)
grow_order(min, max) ==
  IF min > 0
  THEN [j \in 1..(max - min) |-> min + j - 1]
         \o grow_order((max \div 2) \div 2, max \div 2)
  ELSE <<>>

\* rehash_non_zero called on order[j], order[j + 1], ...
RECURSIVE rehash_each(_, _, _)
rehash_each(t, order, j) ==
  IF j > Len(order) THEN t
  ELSE rehash_each(rehash_non_zero(t, order[j]), order, j + 1)

\* n <= MAX_CAPACITY = 1 << MAX_BITS
LeMaxCapacity(n) ==
  BitLength(n) <= MAX_BITS \/ (BitLength(n) = MAX_BITS + 1 /\ is_power_of_two(n))

\* lines 352-364: the table that rehash_zero is called on
grow_shelled(t) ==
  LET old_capacity == capacity(t)
      t1 == resize(t, old_capacity * 2)
      t2 == [t1 EXCEPT !.mask = capacity(t1) - 1, !.shift = t.shift - 1]
  IN  rehash_each(t2, grow_order(old_capacity \div 2, old_capacity), 1)

grow(t) ==
  LET new_capacity == capacity(t) * 2
  IN  IF is_power_of_two(new_capacity) /\ LeMaxCapacity(new_capacity)
      THEN rehash_zero(grow_shelled(t))
      ELSE t

\* the loop of lines 376-379
RECURSIVE shrink_loop(_, _, _)
shrink_loop(t, i, old_capacity) ==
  IF i < old_capacity
  THEN shrink_loop(rehash_non_zero(t, i), i + 1, old_capacity)
  ELSE t

\* Vec::truncate(new_len): the length drops, the block stays as it is
truncate(t, new_len) ==
  IF t.st # "ok" THEN t ELSE [t EXCEPT !.len = Min(t.len, new_len)]

\* shrink without line 374: the mask is halved, the shift stays
shrink_keeps_shift(t) ==
  LET old_capacity == capacity(t)
      new_capacity == old_capacity \div 2
      t1 == [t EXCEPT !.mask = new_capacity - 1]
  IN  IF is_power_of_two(new_capacity) /\ new_capacity >= MIN_CAPACITY
      THEN truncate(shrink_loop(t1, 1, old_capacity), new_capacity)
      ELSE t

shrink(t) ==
  LET old_capacity == capacity(t)
      new_capacity == old_capacity \div 2
      t1 == [t EXCEPT !.mask = new_capacity - 1, !.shift = t.shift + 1]
  IN  IF is_power_of_two(new_capacity) /\ new_capacity >= MIN_CAPACITY
      THEN truncate(shrink_loop(t1, 1, old_capacity), new_capacity)
      ELSE t

(***************************************************************************)
(* insert, delete                                                          *)
(***************************************************************************)
\* lines 226-232, on what emplace returned
insert_emplaced(r) ==
  IF r.t.st # "ok" THEN r
  ELSE IF r.ret # None THEN r
  ELSE Ret([r.t EXCEPT !.count = r.t.count + 1], None)

\* line 226, on the table t1 that lines 223-225 left
insert_grown(t1, key, value) ==
  IF t1.st # "ok" THEN Ret(t1, None)
  ELSE insert_emplaced(emplace(t1, key, value))

\* insert without lines 223-225: the table never grows
insert_never_growing(t, key, value) == insert_grown(t, key, value)

\* insert with the trigger of line 223 tested against the count the call
\* will leave, not the count on entry
insert_counting_ahead(t, key, value) ==
  insert_grown(IF should_grow(t.count + 1, capacity(t)) THEN grow(t) ELSE t,
               key, value)

\* insert with `>` for the `>=` of should_grow: a full table does not grow
insert_growing_when_over(t, key, value) ==
  insert_grown(IF t.count > capacity(t) THEN grow(t) ELSE t, key, value)

insert(t, key, value) ==
  insert_grown(IF should_grow(t.count, capacity(t)) THEN grow(t) ELSE t,
               key, value)

Null == -3

\* lines 257-268 with the test of should_shrink moved out of the
\* `if !erase.is_null()` block: a delete that found nothing may shrink
delete_splice_shrinking(t, h, erase, lst, prev_meta) ==
  LET t1 == IF prev_meta # Null
            THEN SetMeta(t, prev_meta,
                   BitOr(AndHead(t.buckets[prev_meta].meta), Word(h)))
            ELSE t
      t2 == [t1 EXCEPT !.buckets[erase].key = t1.buckets[lst].key]
      t3 == [t2 EXCEPT !.buckets[erase].value = t2.buckets[lst].value]
      t4 == SetMeta(t3, lst, EMPTY_BIT_MASK)
      t5 == IF erase = Null THEN t ELSE [t4 EXCEPT !.count = t4.count - 1]
  IN  IF erase # Null /\ t.count = 0 THEN Stop(t, "fault")
      ELSE IF should_shrink(t5.count, capacity(t5)) THEN shrink(t5)
      ELSE t5

\* lines 257-268 with the test of line 265 made before line 264: the
\* trigger sees the count before the decrement
delete_splice_early_test(t, h, erase, lst, prev_meta) ==
  LET t1 == IF prev_meta # Null
            THEN SetMeta(t, prev_meta,
                   BitOr(AndHead(t.buckets[prev_meta].meta), Word(h)))
            ELSE t
      t2 == [t1 EXCEPT !.buckets[erase].key = t1.buckets[lst].key]
      t3 == [t2 EXCEPT !.buckets[erase].value = t2.buckets[lst].value]
      t4 == SetMeta(t3, lst, EMPTY_BIT_MASK)
      t5 == [t4 EXCEPT !.count = t4.count - 1]
  IN  IF erase = Null THEN t
      ELSE IF t4.count = 0 THEN Stop(t4, "fault")
      ELSE IF should_shrink(t4.count, capacity(t4)) THEN shrink(t5)
      ELSE t5

\* the splice with the predecessor's link written without its HEAD bit
delete_splice_clearing_head(t, h, erase, lst, prev_meta) ==
  LET t1 == IF prev_meta # Null THEN SetMeta(t, prev_meta, Word(h)) ELSE t
      t2 == [t1 EXCEPT !.buckets[erase].key = t1.buckets[lst].key]
      t3 == [t2 EXCEPT !.buckets[erase].value = t2.buckets[lst].value]
      t4 == SetMeta(t3, lst, EMPTY_BIT_MASK)
      t5 == [t4 EXCEPT !.count = t4.count - 1]
  IN  IF erase = Null THEN t
      ELSE IF t4.count = 0 THEN Stop(t4, "fault")
      ELSE IF should_shrink(t5.count, capacity(t5)) THEN shrink(t5)
      ELSE t5

\* lines 257-268: erase, last and prev_meta are the buckets the walk found
delete_splice(t, h, erase, lst, prev_meta) ==
  LET t1 == IF prev_meta # Null
            THEN SetMeta(t, prev_meta,
                   BitOr(AndHead(t.buckets[prev_meta].meta), Word(h)))
            ELSE t
      t2 == [t1 EXCEPT !.buckets[erase].key = t1.buckets[lst].key]
      t3 == [t2 EXCEPT !.buckets[erase].value = t2.buckets[lst].value]
      t4 == SetMeta(t3, lst, EMPTY_BIT_MASK)
      t5 == [t4 EXCEPT !.count = t4.count - 1]
  IN  IF erase = Null THEN t
      \* count -= 1 on a zero count panics where overflow is checked; no
      \* state of this model takes the branch, count is never below the
      \* number of keys delete can find
      ELSE IF t4.count = 0 THEN Stop(t4, "fault")
      ELSE IF should_shrink(t5.count, capacity(t5)) THEN shrink(t5)
      ELSE t5

\* the loop of lines 246-256
RECURSIVE delete_walk(_, _, _, _, _, _, _, _)
delete_walk(t, key, h, erase, lst, prev_meta, meta, fuel) ==
  LET erase1 == IF t.buckets[lst].key = key THEN lst ELSE erase
      a == Addr(t, meta)
  IN  IF meta = Word(h) THEN delete_splice(t, h, erase1, lst, prev_meta)
      ELSE IF fuel = 0 THEN Stop(t, "hang")
      ELSE IF a = Fault THEN Stop(t, "fault")
      ELSE delete_walk(t, key, h, erase1, a, lst, t.buckets[a].meta, fuel - 1)

delete(t, key) ==
  LET h == hash(key, t.shift)
      meta == t.buckets[h].meta
  IN  IF meta.head
      THEN delete_walk(t, key, h, Null, h, Null, XorHead(meta), WalkFuel(t))
      ELSE t

(***************************************************************************)
(* The pointer-linked variants (hash3.rs; hash2.rs is the same code with   *)
(* the table's fields kept in front of the buckets).  A bucket is next,    *)
(* key, value; next is the index of the bucket pointed to, or Null.  The   *)
(* line numbers are those of hash3.rs.                                     *)
(***************************************************************************)
\* 11400714819323198486 = 0x9E3779B97F4A7C16, least significant byte first
HASH_MULTIPLIER == <<22, 124, 74, 127, 185, 121, 55, 158>>

\* the keys the callers of put and get use: 0, 1, 2, 3 and 5
LinkedKeys ==
  {<<n, 0, 0, 0, 0, 0, 0, 0>> : n \in {0, 1, 2, 3, 5}}

LinkedProducts == [key \in LinkedKeys |-> wrapping_mul(key, HASH_MULTIPLIER)]

\* what a block from alloc::alloc holds in the fields that grow does not
\* write (lines 198-200 write next only): any key, any value
Garbage == [key : LinkedKeys, value : {DefaultValue, 1}]

LinkedBucket(n, k, v) == [next |-> n, key |-> k, value |-> v]

\* lines 55-61
LinkedDefaultBucket == LinkedBucket(Null, ZeroKey, DefaultValue)

\* lines 80-87
linked_default ==
  [count |-> 0, shift |-> 0, mask |-> 0, capacity |-> 0, ptr |-> <<>>,
   st |-> "ok"]

\* lines 113-115
linked_hash(t, key) == ShiftRight(LinkedProducts[key], t.shift)

\* lines 119-121
linked_should_grow(t) == t.count >= (t.capacity - (t.capacity \div 16))

\* lines 132-152
linked_with_capacity(initial_capacity) ==
  LET bits == Max(Min(USIZE_BITS - leading_zeros(initial_capacity), MAX_BITS),
                  MIN_BITS)
      cap == Pow2(bits)
  IN  [count |-> 0, shift |-> leading_zeros(cap) + 1, mask |-> cap - 1,
       capacity |-> cap,
       ptr |-> [i \in 0..(cap - 1) |-> LinkedDefaultBucket], st |-> "ok"]

LinkedFuel(t) == 2 * t.capacity + 2

\* lines 162-177; reading through a null `bucket` at line 168 ends the
\* process
RECURSIVE linked_get_loop(_, _, _, _, _)
linked_get_loop(t, key, origin, bucket, fuel) ==
  IF t.ptr[bucket].key = key
  THEN Result("ok", Some(t.ptr[bucket].value))
  ELSE LET n == t.ptr[bucket].next
       IN  IF n = origin THEN Result("ok", None)
           ELSE IF n = Null THEN Result("fault", None)
           ELSE IF fuel = 0 THEN Result("hang", None)
           ELSE linked_get_loop(t, key, origin, n, fuel - 1)

linked_get(t, key) ==
  linked_get_loop(t, key, linked_hash(t, key), linked_hash(t, key),
                  LinkedFuel(t))

\* the loops `for x in 1usize..` of lines 247-250, 269-272 and 291-294: the
\* first index whose bucket has a null next
RECURSIVE linked_probe(_, _, _)
linked_probe(t, h, x) ==
  IF x > LinkedFuel(t) THEN Hang
  ELSE IF t.ptr[AndMask(h + x, t.mask)].next = Null
  THEN AndMask(h + x, t.mask)
  ELSE linked_probe(t, AndMask(h + x, t.mask), x + 1)

\* lines 251-256 and 273-278: the new bucket at n, linked behind curr
linked_append(t, key, value, origin, curr, n) ==
  IF n = Hang THEN Ret(Stop(t, "hang"), None)
  ELSE Ret([t EXCEPT !.ptr[n] = LinkedBucket(origin, key, value),
                     !.ptr[curr].next = n], None)

\* lines 264-285
RECURSIVE linked_walk(_, _, _, _, _, _, _, _)
linked_walk(t, key, value, h, origin, curr, next, fuel) ==
  IF t.ptr[curr].key = key
  THEN Ret([t EXCEPT !.ptr[curr].value = value], Some(t.ptr[curr].value))
  ELSE IF next = origin
  THEN linked_append(t, key, value, origin, curr, linked_probe(t, h, 1))
  ELSE IF next = Null THEN Ret(Stop(t, "fault"), None)
  ELSE IF fuel = 0 THEN Ret(Stop(t, "hang"), None)
  ELSE linked_walk(t, key, value, h, origin, next, t.ptr[next].next,
                   fuel - 1)

\* lines 287-290: the bucket whose next is origin
RECURSIVE linked_pred(_, _, _, _)
linked_pred(t, origin, curr, fuel) ==
  IF curr = Null THEN Fault
  ELSE IF t.ptr[curr].next = origin THEN curr
  ELSE IF fuel = 0 THEN Hang
  ELSE linked_pred(t, origin, t.ptr[curr].next, fuel - 1)

\* lines 291-302: the bucket of origin moved to n, the new entry at origin
linked_displace(t, key, value, origin, curr, n) ==
  IF curr = Fault THEN Ret(Stop(t, "fault"), None)
  ELSE IF curr = Hang \/ n = Hang THEN Ret(Stop(t, "hang"), None)
  ELSE Ret([t EXCEPT !.ptr[n] = t.ptr[origin],
                     !.ptr[curr].next = n,
                     !.ptr[origin] = LinkedBucket(origin, key, value)], None)

\* lines 230-308
linked_emplace(t, key, value) ==
  LET h == linked_hash(t, key)
      next == t.ptr[h].next
  IN  IF next = Null
      THEN Ret([t EXCEPT !.ptr[h] = LinkedBucket(h, key, value)], None)
      ELSE IF next = h
      THEN IF t.ptr[h].key = key
           THEN Ret([t EXCEPT !.ptr[h].value = value], Some(t.ptr[h].value))
           ELSE linked_append(t, key, value, h, h, linked_probe(t, h, 1))
      ELSE IF h = linked_hash(t, t.ptr[h].key)
      THEN linked_walk(t, key, value, h, h, h, next, LinkedFuel(t))
      ELSE linked_displace(t, key, value, h,
                           linked_pred(t, h, next, LinkedFuel(t)),
                           linked_probe(t, h, 1))

\* lines 202-207, from bucket i of the old array
RECURSIVE linked_grow_loop(_, _, _)
linked_grow_loop(t, old, i) ==
  IF i >= old.capacity \/ t.st # "ok" THEN t
  ELSE IF old.ptr[i].next # Null
  THEN linked_grow_loop(linked_emplace(t, old.ptr[i].key, old.ptr[i].value).t,
                        old, i + 1)
  ELSE linked_grow_loop(t, old, i + 1)

\* lines 179-211; g is what the new block held in its key and value fields
linked_grow(t, g) ==
  linked_grow_loop(
    [t EXCEPT !.shift = leading_zeros(2 * t.capacity) + 1,
              !.mask = 2 * t.capacity - 1,
              !.capacity = 2 * t.capacity,
              !.ptr = [i \in 0..(2 * t.capacity - 1) |->
                         LinkedBucket(Null, g.key, g.value)]],
    t, 0)

\* lines 219-226, on what emplace returned
linked_put_emplaced(r) ==
  IF r.t.st = "ok" /\ r.ret = None
  THEN Ret([r.t EXCEPT !.count = r.t.count + 1], None)
  ELSE r

\* lines 214-227
linked_put(t, key, value, g) ==
  LET t1 == IF linked_should_grow(t) THEN linked_grow(t, g) ELSE t
  IN  IF t1.st # "ok" THEN Ret(t1, None)
      ELSE linked_put_emplaced(linked_emplace(t1, key, value))

(***************************************************************************)
(* The callers: a table made by with_capacity, then any insert and delete. *)
(***************************************************************************)
\* `last` after construction: no insert or delete has been called yet, and
\* value is the initial_capacity that with_capacity was given.
\* cap0 and count0 are capacity() and count() when the call started, pre[k]
\* is what get(k) returned then, dropped whether a probe loop of emplace ran
\* out during the call
NoCall == [op |-> "with_capacity", key |-> ZeroKey, value |-> DefaultValue,
           ret |-> None, cap0 |-> 0, count0 |-> 0,
           pre |-> [k \in Keys |-> Result("ok", None)], dropped |-> FALSE]

\* `script` of a caller that follows no script: keys are the keys inserted
\* so far, order the order of the deletes and done their number
NoScript == [keys |-> <<>>, order |-> "none", done |-> 0]

\* `probe` when no probe loop is followed: start is the index the loop
\* starts from, i and n are its variables, visits the indices it has probed
NoProbe == [start |-> 0, i |-> 0, n |-> 1, visits |-> <<>>]

\* `linked` when no pointer-linked table is used: t is the table, op, key
\* and ret the last call on it and what it returned, put the keys that put
\* has been called with
NoLinked ==
  [t |-> linked_default, op |-> "default", key |-> ZeroKey, ret |-> None,
   put |-> {}]

Init ==
  \E n \in 0..MaxRequest :
    LET t == with_capacity(n)
    IN  /\ count = t.count
        /\ shift = t.shift
        /\ mask = t.mask
        /\ buckets = t.buckets
        /\ len = t.len
        /\ status = "ok"
        /\ build \in {"trap", "wrap"}
        /\ stored = {}
        /\ last = [NoCall EXCEPT !.cap0 = t.len, !.value = n]
        /\ script = NoScript
        /\ probe = NoProbe
        /\ linked = NoLinked

\* the call returned: the table is what it left
Returned(t) ==
  /\ count' = t.count
  /\ shift' = t.shift
  /\ mask' = t.mask
  /\ buckets' = t.buckets
  /\ len' = t.len
  /\ status' = "ok"

\* the call trapped or never returns: the process takes no further call
Stopped(t) ==
  /\ status' = t.st
  /\ UNCHANGED <<count, shift, mask, buckets, len>>

Call(name, key, value, r, d) ==
  [op |-> name, key |-> key, value |-> value, ret |-> r,
   cap0 |-> len, count0 |-> count, pre |-> [k \in Keys |-> get(Table, k)],
   dropped |-> d]

\* the table is left as the call left it
Left(t) == IF t.st = "ok" THEN Returned(t) ELSE Stopped(t)

\* insert(key, value) gave r
Inserted(key, value, r) ==
  /\ last' = Call("insert", key, value, r.ret, r.t.dropped)
  /\ Left(r.t)
  /\ stored' = IF r.t.st = "ok" THEN stored \cup {key} ELSE stored

\* delete(key) left the table t
Deleted(key, t) ==
  /\ last' = Call("delete", key, DefaultValue, None, t.dropped)
  /\ Left(t)
  /\ stored' = IF t.st = "ok" THEN stored \ {key} ELSE stored

Insert(key, value) ==
  /\ status = "ok"
  /\ Inserted(key, value, insert(Table, key, value))
  /\ UNCHANGED <<build, script, probe, linked>>

Delete(key) ==
  /\ status = "ok"
  /\ Deleted(key, delete(Table, key))
  /\ UNCHANGED <<build, script, probe, linked>>

\* get changes nothing when it returns; it stops the process when it traps
\* or never returns
Get(key) ==
  /\ status = "ok"
  /\ status' = get(Table, key).st
  /\ UNCHANGED <<count, shift, mask, buckets, len, build, stored, last,
                 script, probe, linked>>

Next ==
  \/ \E key \in Keys : \E value \in ValuesFor(key) : Insert(key, value)
  \/ \E key \in Keys : Delete(key)
  \/ \E key \in Keys : Get(key)

Spec == Init /\ [][Next]_vars

(***************************************************************************)
(* The caller of main.rs:23-56: a table made by with_capacity, inserts of  *)
(* distinct keys, then a delete of every inserted key, in the order of the *)
(* inserts or in the reverse order.                                        *)
(***************************************************************************)
DrainInit ==
  LET t == with_capacity(0)
  IN  /\ count = t.count
      /\ shift = t.shift
      /\ mask = t.mask
      /\ buckets = t.buckets
      /\ len = t.len
      /\ status = "ok"
      /\ build \in {"trap", "wrap"}
      /\ stored = {}
      /\ last = [NoCall EXCEPT !.cap0 = t.len]
      /\ script = NoScript
      /\ probe = NoProbe
      /\ linked = NoLinked

\* main.rs:29-33: insert a key not inserted before
DrainInsert(key) ==
  /\ status = "ok"
  /\ script.order = "none"
  /\ \A i \in 1..Len(script.keys) : script.keys[i] # key
  /\ Inserted(key, 1, insert(Table, key, 1))
  /\ script' = [script EXCEPT !.keys = Append(@, key)]
  /\ UNCHANGED <<build, probe, linked>>

\* the key of the next delete when the deletes go in order o
DrainKey(o) ==
  IF o = "forward" THEN script.keys[script.done + 1]
  ELSE script.keys[Len(script.keys) - script.done]

\* main.rs:51-54: delete the next key; the first delete fixes the order
DrainDelete(o) ==
  /\ status = "ok"
  /\ script.done < Len(script.keys)
  /\ script.order \in {"none", o}
  /\ Deleted(DrainKey(o), delete(Table, DrainKey(o)))
  /\ script' = [script EXCEPT !.order = o, !.done = @ + 1]
  /\ UNCHANGED <<build, probe, linked>>

DrainNext ==
  \/ \E key \in DrainKeys : DrainInsert(key)
  \/ \E o \in {"forward", "reverse"} : DrainDelete(o)

DrainSpec == DrainInit /\ [][DrainNext]_vars

(***************************************************************************)
(* The callers of the pointer-linked table: with_capacity, then any put    *)
(* and get.  A call that does not return ends the process.                 *)
(***************************************************************************)
LinkedInit ==
  /\ \E n \in 0..MaxRequest :
       linked = [NoLinked EXCEPT !.t = linked_with_capacity(n),
                                 !.op = "with_capacity"]
  /\ count = with_capacity(0).count
  /\ shift = with_capacity(0).shift
  /\ mask = with_capacity(0).mask
  /\ buckets = with_capacity(0).buckets
  /\ len = with_capacity(0).len
  /\ status = "ok"
  /\ build \in {"trap", "wrap"}
  /\ stored = {}
  /\ last = [NoCall EXCEPT !.cap0 = with_capacity(0).len]
  /\ script = NoScript
  /\ probe = NoProbe

LinkedPut(key, value, g) ==
  /\ linked.t.st = "ok"
  /\ linked' = [t |-> linked_put(linked.t, key, value, g).t,
                op |-> "put", key |-> key,
                ret |-> linked_put(linked.t, key, value, g).ret,
                put |-> linked.put \cup {key}]
  /\ UNCHANGED <<count, shift, mask, buckets, len, status, build, stored,
                 last, script, probe>>

LinkedGet(key) ==
  /\ linked.t.st = "ok"
  /\ linked' = [linked EXCEPT !.t.st = linked_get(linked.t, key).st,
                              !.op = "get", !.key = key,
                              !.ret = linked_get(linked.t, key).val]
  /\ UNCHANGED <<count, shift, mask, buckets, len, status, build, stored,
                 last, script, probe>>

LinkedNext ==
  \/ \E key \in LinkedKeys : \E g \in Garbage : LinkedPut(key, 1, g)
  \/ \E key \in LinkedKeys : LinkedGet(key)

LinkedSpec == LinkedInit /\ [][LinkedNext]_vars

(***************************************************************************)
(* hash run on the tables that with_capacity makes: the requests are those *)
(* that give the capacities 2, 4, ..., 2^MaxHashBits.                      *)
(***************************************************************************)
HashRequests == {Pow2(b) - 1 : b \in 0..MaxHashBits}

HashInit ==
  \E n \in HashRequests :
    LET t == with_capacity(n)
    IN  /\ count = t.count
        /\ shift = t.shift
        /\ mask = t.mask
        /\ buckets = t.buckets
        /\ len = t.len
        /\ status = "ok"
        /\ build \in {"trap", "wrap"}
        /\ stored = {}
        /\ last = [NoCall EXCEPT !.cap0 = t.len]
        /\ script = NoScript
        /\ probe = NoProbe
        /\ linked = NoLinked

\* hash(key, self.shift), as get, emplace and delete call it first; each
\* behaviour runs it once
Hash(key) ==
  /\ last.op = "with_capacity"
  /\ last' = [last EXCEPT !.op = "hash", !.key = key,
                          !.ret = Some(hash(key, shift))]
  /\ UNCHANGED <<count, shift, mask, buckets, len, status, build, stored,
                 script, probe, linked>>

HashNext == \E key \in HashKeys : Hash(key)

HashSpec == HashInit /\ [][HashNext]_vars

(***************************************************************************)
(* A probe loop of emplace (lines 171-186, 196-216) followed pass by pass: *)
(* a table made by with_capacity, a loop that starts from any index of the *)
(* array and meets no EMPTY bucket.                                        *)
(***************************************************************************)
ProbeInit ==
  \E n \in 0..MaxProbeRequest :
    LET t == with_capacity(n)
    IN  /\ count = t.count
        /\ shift = t.shift
        /\ mask = t.mask
        /\ buckets = t.buckets
        /\ len = t.len
        /\ status = "ok"
        /\ build \in {"trap", "wrap"}
        /\ stored = {}
        /\ last = [NoCall EXCEPT !.cap0 = t.len, !.value = n]
        /\ script = NoScript
        /\ linked = NoLinked
        /\ \E i \in 0..(t.len - 1) :
             probe = [NoProbe EXCEPT !.start = i, !.i = i]

\* one pass of `while n < self.capacity()` that does not find an EMPTY bucket
ProbeStep ==
  /\ probe.n < len
  /\ probe' = [probe EXCEPT !.i = probe_next(probe.i, probe.n, mask),
                            !.n = probe.n + 1,
                            !.visits = Append(@, probe_next(probe.i, probe.n,
                                                            mask))]
  /\ UNCHANGED <<count, shift, mask, buckets, len, status, build, stored,
                 last, script, linked>>

ProbeNext == ProbeStep

ProbeSpec == ProbeInit /\ [][ProbeNext]_vars

(***************************************************************************)
(* What the callers observe.                                               *)
(***************************************************************************)
\* what get(k) returns in the current state
Got(k) == get(Table, k)
\* get returned Some
Retrievable(r) == r.st = "ok" /\ r.val # None
\* the last call was `name` and it returned
Called(name) == status = "ok" /\ last.op = name
\* the keys get finds in the current state
Found == {k \in Keys : Retrievable(Got(k))}

\* C1: after insert(k, v) returns, get(k) returns Some(v), also when the
\* insert grew the table.
InsertThenGet ==
  Called("insert") => Got(last.key) = Result("ok", Some(last.value))

\* an insert of a new key grew the table and get finds the key
InsertThenGetGrew ==
  /\ Called("insert")
  /\ last.ret = None
  /\ len > last.cap0
  /\ Got(last.key) = Result("ok", Some(last.value))

\* C2: every other key that get found with value v' before an insert is
\* found with value v' after it, whether or not the insert grew the table.
RoundTripAcrossGrow ==
  Called("insert") =>
    \A k \in Keys \ {last.key} :
      Retrievable(last.pre[k]) => Got(k) = last.pre[k]

\* C3: every other key that get found with value v' before a delete is
\* found with value v' after it, whether or not the delete shrank the table.
RoundTripAcrossShrink ==
  Called("delete") =>
    \A k \in Keys \ {last.key} :
      Retrievable(last.pre[k]) => Got(k) = last.pre[k]

\* C4: after delete(k) returns, get(k) returns None.
DeleteThenGet ==
  Called("delete") => Got(last.key) = Result("ok", None)

\* C5: insert(k, v2) into a table in which get(k) = Some(v1) returns
\* Some(v1), leaves get(k) = Some(v2), and leaves count as it was.
Overwrite ==
  (Called("insert") /\ Retrievable(last.pre[last.key])) =>
    /\ last.ret = last.pre[last.key].val
    /\ Got(last.key) = Result("ok", Some(last.value))
    /\ count = last.count0

\* the step is an insert, which returned, of a key that get found before it
OverwriteStep ==
  /\ status' = "ok"
  /\ last'.op = "insert"
  /\ Retrievable(last'.pre[last'.key])

\* C6: an insert of a key that is already stored leaves capacity, mask,
\* shift and count as they were, and changes no bucket except for the value
\* of the bucket holding the key.
OverwriteFrame ==
  [][OverwriteStep =>
       /\ len' = len
       /\ mask' = mask
       /\ shift' = shift
       /\ count' = count
       /\ DOMAIN buckets' = DOMAIN buckets
       /\ \A i \in DOMAIN buckets :
            \/ buckets'[i] = buckets[i]
            \/ /\ ~buckets[i].meta.empty
               /\ buckets[i].key = last'.key
               /\ buckets'[i] = [buckets[i] EXCEPT !.value = last'.value]]_vars

\* C7: count() is the number of keys for which get returns Some.
CountAccounting ==
  status = "ok" => count = Cardinality(Found)

\* the step is a delete, which returned, of a key for which get returned None
DeleteAbsentStep ==
  /\ status' = "ok"
  /\ last'.op = "delete"
  /\ last'.pre[last'.key] = Result("ok", None)

\* C8: delete(k) when get(k) is None leaves count, capacity, mask, shift and
\* every bucket as they were; in particular it does not shrink the table.
DeleteAbsentNoOp ==
  [][DeleteAbsentStep => UNCHANGED <<count, len, mask, shift, buckets>>]_vars

\* a delete of an absent key walked the chain of a HEAD bucket to its end,
\* in a table that a delete of a present key would have shrunk
DeleteAbsentWalked ==
  /\ Called("delete")
  /\ last.pre[last.key] = Result("ok", None)
  /\ buckets[hash(last.key, shift)].meta.head
  /\ count > 0
  /\ len > MIN_CAPACITY
  /\ should_shrink(count, len)

\* C9: get(k) returns None for every key k that is not stored, that is,
\* never inserted or deleted since it was last inserted.
MissingKeyLookup ==
  status = "ok" => \A k \in Keys \ stored : Got(k) = Result("ok", None)

\* bucket i is met on the walk that starts at bucket b and follows the probe
\* links until one of them is h
RECURSIVE OnRing(_, _, _, _)
OnRing(h, b, i, fuel) ==
  \/ b = i
  \/ LET n == buckets[b].meta.probe
     IN  /\ n # h
         /\ fuel > 0
         /\ n \in DOMAIN buckets
         /\ OnRing(h, n, i, fuel - 1)

\* C10: for every non-EMPTY bucket b holding key k, bucket hash(k) has the
\* HEAD bit set and the walk along the probe links from bucket hash(k)
\* meets b before it is back at hash(k).
HomeChain ==
  status = "ok" =>
    \A i \in 0..(len - 1) :
      ~buckets[i].meta.empty =>
        LET h == hash(buckets[i].key, shift)
        IN  /\ buckets[h].meta.head
            /\ OnRing(h, h, i, WalkFuel(Table))

\* the indices of the bucket array, and those whose EMPTY bit is clear
Indices == 0..(len - 1)
Occupied == {i \in Indices : ~buckets[i].meta.empty}
\* the buckets of the array with the HEAD bit
Heads == {h \in Indices : buckets[h].meta.head}

\* the buckets met on the walk that starts at bucket b and follows the probe
\* links until one of them is h
RECURSIVE RingFrom(_, _, _)
RingFrom(h, b, fuel) ==
  {b} \cup LET n == buckets[b].meta.probe
           IN  IF n = h \/ fuel = 0 \/ n \notin DOMAIN buckets THEN {}
               ELSE RingFrom(h, n, fuel - 1)

\* the ring of the HEAD bucket h
Ring(h) == RingFrom(h, h, WalkFuel(Table))

\* C11: every non-EMPTY bucket lies on the ring of exactly one HEAD bucket,
\* and no bucket on a ring is EMPTY.
ChainsPartition ==
  status = "ok" =>
    /\ \A i \in Occupied : Cardinality({h \in Heads : i \in Ring(h)}) = 1
    /\ \A h \in Heads : \A i \in Ring(h) : ~buckets[i].meta.empty

\* the walk from bucket b along the probe links meets only indices below
\* capacity() and is back at h after at most `steps` links
RECURSIVE Closes(_, _, _)
Closes(h, b, steps) ==
  LET n == buckets[b].meta.probe
  IN  /\ steps >= 1
      /\ n < len
      /\ (n = h \/ Closes(h, n, steps - 1))

\* C12: for every HEAD bucket h, every probe link met on the walk from h is
\* below capacity() and the walk is back at h within capacity() steps.
RingClosure ==
  status = "ok" => \A h \in Heads : Closes(h, h, len)

\* C13: count is the number of buckets of the array whose EMPTY bit is
\* clear.
CountOccupied ==
  status = "ok" => count = Cardinality(Occupied)

\* log2 of a power of two
Log2(n) == BitLength(n) - 1

\* C14: capacity() is a power of two in [MIN_CAPACITY, MAX_CAPACITY],
\* mask = capacity() - 1 and shift = W - log2(capacity()).
Geometry ==
  /\ is_power_of_two(len)
  /\ len >= MIN_CAPACITY
  /\ LeMaxCapacity(len)
  /\ mask = len - 1
  /\ shift = USIZE_BITS - Log2(len)

\* a delete has halved a capacity that an insert had doubled before
GeometryAfterShrink ==
  /\ Called("delete")
  /\ last.cap0 = 4 * MIN_CAPACITY
  /\ len = 2 * MIN_CAPACITY
  /\ mask = len - 1

\* C15: no two non-EMPTY buckets of the array hold the same key.
KeysUnique ==
  status = "ok" =>
    \A i, j \in Occupied : buckets[i].key = buckets[j].key => i = j

\* C16: an insert doubles the capacity if on entry count >= capacity -
\* (capacity >> 4) and 2 * capacity <= MAX_CAPACITY, and leaves the capacity
\* as it was otherwise.
GrowTrigger ==
  Called("insert") =>
    len = IF /\ should_grow(last.count0, last.cap0)
             /\ LeMaxCapacity(2 * last.cap0)
          THEN 2 * last.cap0
          ELSE last.cap0

\* an insert met the trigger while overwriting a key and doubled the capacity
GrowTriggerFired ==
  /\ Called("insert")
  /\ last.ret # None
  /\ should_grow(last.count0, last.cap0)
  /\ len = 2 * last.cap0

LoadFactorAtMostOne == 0 <= count /\ count <= len

\* an insert of a new key filled the table: load_factor() is 1
TableFull == Called("insert") /\ last.ret = None /\ count = len

\* the least power of two >= n
RoundedUp(n) == IF n <= 1 THEN 1 ELSE Pow2(BitLength(n - 1))
\* c clamped to [MIN_CAPACITY, MAX_CAPACITY]
Clamped(c) ==
  IF c < MIN_CAPACITY THEN MIN_CAPACITY
  ELSE IF LeMaxCapacity(c) THEN c
  ELSE Pow2(MAX_BITS)

\* C20: with_capacity(n) yields a table with count 0, every bucket EMPTY and
\* capacity the least power of two >= n clamped to [MIN_CAPACITY,
\* MAX_CAPACITY]; a request that is a power of two in range yields itself.
WithCapacityRounds ==
  last.op = "with_capacity" =>
    /\ count = 0
    /\ \A i \in Indices : buckets[i].meta.empty
    /\ len = Clamped(RoundedUp(last.value))

\* the script's deletes are over
Drained == script.done > 0 /\ script.done = Len(script.keys)

\* C21: from with_capacity(0), after inserts of distinct keys, each delete
\* of the inserted keys, in the order of the inserts or in the reverse
\* order, decreases count by exactly 1, and after the last one count is 0,
\* every bucket is EMPTY and the capacity is MIN_CAPACITY.
DrainToEmpty ==
  [][script'.done = script.done + 1 =>
       /\ count' = count - 1
       /\ Drained' =>
            /\ count' = 0
            /\ len' = MIN_CAPACITY
            /\ \A i \in 0..(len' - 1) : buckets'[i].meta.empty]_vars

\* C22: every call of get, insert and delete made in a reachable state
\* returns: no walk of get, emplace, delete, rehash_non_zero or rehash_zero
\* leaves the bucket array or goes on for ever.
Totality == status = "ok"

\* the buckets of table t met on the walk from bucket b along the probe
\* links until one of them is h
RECURSIVE RingInFrom(_, _, _, _)
RingInFrom(t, h, b, fuel) ==
  {b} \cup LET n == t.buckets[b].meta.probe
           IN  IF n = h \/ fuel = 0 \/ n \notin DOMAIN t.buckets THEN {}
               ELSE RingInFrom(t, h, n, fuel - 1)

RingIn(t, h) == RingInFrom(t, h, h, WalkFuel(t))

\* the walk from bucket b of table t is back at h after at most `steps`
\* links, all inside the array
RECURSIVE ClosesIn(_, _, _, _)
ClosesIn(t, h, b, steps) ==
  LET n == t.buckets[b].meta.probe
  IN  /\ steps >= 1
      /\ ~t.buckets[b].meta.empty
      /\ n < t.len
      /\ (n = h \/ ClosesIn(t, h, n, steps - 1))

\* bucket h of table t is the HEAD of a ring of non-EMPTY buckets
IsChain(t, h) == t.buckets[h].meta.head /\ ClosesIn(t, h, h, t.len)

\* the non-EMPTY buckets of the array of t that hold key k
Holding(t, k) ==
  {i \in 0..(t.len - 1) : ~t.buckets[i].meta.empty /\ t.buckets[i].key = k}

\* in table r, key k is in exactly one bucket, on the ring of its home
KeptOnHomeRing(r, k) ==
  /\ Cardinality(Holding(r, k)) = 1
  /\ IsChain(r, hash(k, r.shift))
  /\ Holding(r, k) \subseteq RingIn(r, hash(k, r.shift))

\* rehash_zero, called on table tz, keeps every entry of the chain of bucket 0
RehashZeroKeepsChain(tz, r) ==
  IsChain(tz, 0) =>
    /\ r.st = "ok"
    /\ \A i \in RingIn(tz, 0) : KeptOnHomeRing(r, tz.buckets[i].key)

\* C23: when an insert grows the table and bucket 0 is the HEAD of a chain
\* as rehash_zero starts, then as it finishes every entry of that chain is
\* in exactly one bucket, on the ring rooted at its new home (bucket 0 for a
\* new hash of 0), also when re-emplacing one member displaces another.
RehashZeroKeeps ==
  (status = "ok" /\ should_grow(count, len)) =>
    RehashZeroKeepsChain(grow_shelled(Table), rehash_zero(grow_shelled(Table)))

\* C24: when a delete has shrunk the table, every bucket that truncate cut
\* off (index >= the new capacity) is EMPTY and no non-EMPTY bucket of the
\* array has a probe link >= the new capacity.
ShrinkDiscardsNothing ==
  (Called("delete") /\ len < last.cap0) =>
    /\ \A i \in len..(last.cap0 - 1) : buckets[i].meta.empty
    /\ \A i \in Occupied : buckets[i].meta.probe < len

\* the last call was an insert that doubled the capacity
Grew == Called("insert") /\ len = 2 * last.cap0

\* C25: after a grow has reduced shift by one, a key whose home index was h
\* has home index h or h + old_capacity.
HomeStaysOrMovesUp ==
  Grew =>
    \A k \in DrainKeys :
      hash(k, shift) \in {hash(k, shift + 1), hash(k, shift + 1) + last.cap0}

\* C25, amended: after a grow has reduced shift by one, a key whose home
\* index was h has home index 2 * h or 2 * h + 1.
HomeDoubles ==
  Grew =>
    \A k \in DrainKeys :
      hash(k, shift) \in {2 * hash(k, shift + 1), 2 * hash(k, shift + 1) + 1}

\* a grow moved the home of one key from a non-zero h to 2 * h and the home
\* of another from h to 2 * h + 1
HomesDoubled ==
  /\ Grew
  /\ \E k \in DrainKeys :
       hash(k, shift + 1) > 0 /\ hash(k, shift) = 2 * hash(k, shift + 1)
  /\ \E k \in DrainKeys : hash(k, shift) = 2 * hash(k, shift + 1) + 1

\* the indices lo, ..., 2 * lo - 1, then those of the shells below
RECURSIVE ShellsDownFrom(_)
ShellsDownFrom(lo) ==
  IF lo = 0 THEN <<>>
  ELSE [j \in 1..lo |-> lo + j - 1] \o ShellsDownFrom(lo \div 2)

\* the keys and values in the non-EMPTY buckets of the array of t
Entries(t) ==
  {<<t.buckets[i].key, t.buckets[i].value>> :
     i \in {j \in 0..(t.len - 1) : ~t.buckets[j].meta.empty}}

\* rehash_non_zero(h) takes table t to t1, after the indices in `visited`:
\* every entry it re-emplaces has a new home other than h that was visited
\* or is >= old, every HEAD it makes is at such an index, and the table
\* holds the same entries as before, each in as many buckets as before
RehashStepKeeps(t, t1, h, visited, old) ==
  /\ t1.st = "ok"
  /\ \A i \in RingIn(t, h) :
       /\ hash(t.buckets[i].key, t.shift) # h
       /\ hash(t.buckets[i].key, t.shift) \in visited \cup old..(2 * old - 1)
  /\ \A b \in 0..(t.len - 1) :
       (t1.buckets[b].meta.head /\ ~t.buckets[b].meta.head) =>
         b \in visited \cup old..(2 * old - 1)
  /\ Entries(t1) = Entries(t)
  /\ \A e \in Entries(t) :
       Cardinality(Holding(t1, e[1])) = Cardinality(Holding(t, e[1]))

\* RehashStepKeeps at every call of rehash_non_zero from order[j] on
RECURSIVE RehashStepsKeep(_, _, _, _)
RehashStepsKeep(t, order, j, old) ==
  \/ j > Len(order)
  \/ /\ t.buckets[order[j]].meta.head =>
          RehashStepKeeps(t, rehash_non_zero(t, order[j]), order[j],
                          {order[i] : i \in 1..(j - 1)}, old)
     /\ RehashStepsKeep(rehash_non_zero(t, order[j]), order, j + 1, old)

\* the table that line 354 leaves: the array doubled, nothing rehashed yet
Doubled ==
  [resize(Table, 2 * len) EXCEPT !.mask = 2 * len - 1, !.shift = shift - 1]

\* C26: a grow calls rehash_non_zero on the old indices [old/2, old),
\* [old/4, old/2), ..., [1, 2), and then rehash_zero; each entry that
\* rehash_non_zero(h) re-emplaces has a new home other than h, at an index
\* already visited or >= old, no HEAD is made at an index still to visit,
\* and no entry is overwritten or lost.
GrowOrderKeeps ==
  (status = "ok" /\ should_grow(count, len)) =>
    /\ grow_order(len \div 2, len) = ShellsDownFrom(len \div 2)
    /\ RehashStepsKeep(Doubled, grow_order(len \div 2, len), 1, len)

\* an insert grew a table of capacity 4 in which the key with home 1 was
\* stored, and get still finds that key
GrowMovedHead ==
  /\ Grew
  /\ last.cap0 = 2 * MIN_CAPACITY
  /\ Retrievable(last.pre[KeyList[4]])
  /\ Got(KeyList[4]) = last.pre[KeyList[4]]
  /\ hash(KeyList[4], shift + 1) = 1

\* C27: no probe loop of emplace, called from insert or from a rehash step
\* of grow or of shrink, runs out before it finds an EMPTY bucket.
ProbeFindsEmpty == ~last.dropped

\* a delete shrank the table, and a rehash step of the shrink probed: a key
\* whose home is not bucket 0 sits in a bucket that is not its home
ProbedOnShrink ==
  /\ Called("delete")
  /\ len < last.cap0
  /\ ~last.dropped
  /\ \E i \in Occupied :
       /\ hash(buckets[i].key, shift) # 0
       /\ hash(buckets[i].key, shift) # i

\* the probe loop has made its capacity() - 1 passes
ProbeDone == probe.n = len

\* C28: from any start index i of an array of power-of-two capacity c, the
\* indices i := (i + x) & (c - 1) for x = 1, ..., c - 1 are all the indices
\* of [0, c) other than the start, each of them once.
TriangularCoverage ==
  /\ is_power_of_two(len) /\ mask = len - 1
  /\ \A a, b \in 1..Len(probe.visits) :
       probe.visits[a] = probe.visits[b] => a = b
  /\ \A a \in 1..Len(probe.visits) : probe.visits[a] # probe.start
  /\ ProbeDone =>
       {probe.visits[a] : a \in 1..Len(probe.visits)}
         = (0..(len - 1)) \ {probe.start}

\* a probe loop over 32 buckets has made its 31 passes from a start index
\* other than 0
ProbeCovered32 ==
  /\ ProbeDone
  /\ len = 32
  /\ probe.start > 0
  /\ Len(probe.visits) = 31

\* the table that emplace is called on by an insert taken in this state
\* (lines 223-225 done)
Grown == IF should_grow(count, len) THEN grow(Table) ELSE Table

\* the table in the next state
After ==
  [count |-> count', shift |-> shift', mask |-> mask', buckets |-> buckets',
   len |-> len', st |-> status', build |-> build', dropped |-> FALSE]

\* the step is an insert that returned
InsertReturned == last'.op = "insert" /\ status' = "ok"

\* the indices met on the walk of table t from bucket b along the probe
\* links until one of them is `start`, in the order of the walk
RECURSIVE RingSeqFrom(_, _, _, _)
RingSeqFrom(t, start, b, fuel) ==
  <<b>> \o LET n == t.buckets[b].meta.probe
           IN  IF n = start \/ fuel = 0 \/ n \notin DOMAIN t.buckets THEN <<>>
               ELSE RingSeqFrom(t, start, n, fuel - 1)

RingSeq(t, start) == RingSeqFrom(t, start, start, WalkFuel(t))

\* key, value and HEAD bit of the buckets of table t at the indices of seq
RingEntries(t, seq) ==
  [a \in 1..Len(seq) |->
     <<t.buckets[seq[a]].key, t.buckets[seq[a]].value,
       t.buckets[seq[a]].meta.head>>]

\* emplace(k, v), called on table t, finds the home of k held by a bucket
\* that is neither EMPTY nor HEAD
CaseC(t, k) ==
  /\ t.st = "ok"
  /\ ~t.buckets[hash(k, t.shift)].meta.empty
  /\ ~t.buckets[hash(k, t.shift)].meta.head

\* what Case C leaves, for the squatter's ring `ring` in table t, walked from
\* the home h of k
Displaced(t, k, v, h, ring) ==
  /\ buckets'[h] = Bucket(BitOr(HEAD_BIT_MASK, Word(h)), k, v)
  /\ \E j \in 0..(len' - 1) :
       /\ t.buckets[j].meta.empty
       /\ RingSeq(After, j) = <<j>> \o Tail(ring)
       /\ RingEntries(After, RingSeq(After, j)) = RingEntries(t, ring)
  /\ count' = count + 1
  /\ get(After, k) = Result("ok", Some(v))
  /\ \A a \in 1..Len(ring) :
       get(After, t.buckets[ring[a]].key)
         = Result("ok", Some(t.buckets[ring[a]].value))

\* C29: when an insert of (k, v) finds the home h of k held by an INTERIOR
\* bucket of another chain, then afterwards bucket h is HEAD | h and holds
\* (k, v), the squatter's entry is in a bucket that was EMPTY, the other
\* chain has the same members in the same ring order and the same HEAD,
\* count is one more, and k and the keys of the other chain are retrievable.
Displacement ==
  [][(InsertReturned /\ CaseC(Grown, last'.key)) =>
       Displaced(Grown, last'.key, last'.value, hash(last'.key, shift'),
                 RingSeq(Grown, hash(last'.key, shift')))]_vars

\* emplace(k, v), called on table t, finds the home of k held by a HEAD
\* bucket
CaseB(t, k) ==
  /\ t.st = "ok"
  /\ ~t.buckets[hash(k, t.shift)].meta.empty
  /\ t.buckets[hash(k, t.shift)].meta.head

\* no bucket of table t at an index of seq holds key k
NotOnRing(t, k, seq) == \A a \in 1..Len(seq) : t.buckets[seq[a]].key # k

\* what Case B leaves, for the ring `ring` of the home h of k in table t:
\* bucket j is the new one and the last index of `ring` is the former tail
Appended(t, k, v, h, ring) ==
  /\ \E j \in 0..(len' - 1) :
       /\ t.buckets[j].meta.empty
       /\ buckets'[j] = Bucket(Word(h), k, v)
       /\ buckets'[ring[Len(ring)]].meta
            = [t.buckets[ring[Len(ring)]].meta EXCEPT !.probe = j]
       /\ RingSeq(After, h) = ring \o <<j>>
  /\ buckets'[h].meta.head
  /\ RingEntries(After, ring) = RingEntries(t, ring)
  /\ count' = count + 1
  /\ last'.ret = None

\* C30: when an insert of (k, v) finds the home h of k HEAD and k is not on
\* its chain, the new entry is written to a bucket that was EMPTY, with meta
\* h; the former tail links to that bucket and keeps its HEAD bit; bucket h
\* stays HEAD; the prior members keep their ring order; count is one more
\* and the insert returns none.
AppendToChain ==
  [][(/\ InsertReturned
       /\ CaseB(Grown, last'.key)
       /\ NotOnRing(Grown, last'.key,
                    RingSeq(Grown, hash(last'.key, shift')))) =>
       Appended(Grown, last'.key, last'.value, hash(last'.key, shift'),
                RingSeq(Grown, hash(last'.key, shift')))]_vars

\* the last call appended its key behind a chain of two or more members
AppendedBehindTail ==
  /\ Called("insert")
  /\ last.ret = None
  /\ buckets[hash(last.key, shift)].meta.head
  /\ buckets[hash(last.key, shift)].key # last.key
  /\ \E j \in 0..(len - 1) :
       /\ buckets[j] = Bucket(Word(hash(last.key, shift)), last.key, last.value)
       /\ buckets[hash(last.key, shift)].meta.probe # j

\* the step is a delete that returned
DeleteReturned == last'.op = "delete" /\ status' = "ok"

\* the positions of seq at which table t holds key k
HoldingAt(t, k, seq) == {a \in 1..Len(seq) : t.buckets[seq[a]].key = k}

\* delete(k), called on table t, finds k on the chain of its home: `erase`
\* is non-null at line 257
Removes(t, k) ==
  /\ t.buckets[hash(k, t.shift)].meta.head
  /\ HoldingAt(t, k, RingSeq(t, hash(k, t.shift))) # {}

\* the last bucket of the walk `ring` that holds k (lines 247-249)
Erase(t, k, ring) ==
  ring[CHOOSE a \in HoldingAt(t, k, ring) :
         \A b \in HoldingAt(t, k, ring) : b <= a]

\* what the splice leaves of the chain `ring` of h, whose last index is the
\* former tail
Spliced(k, h, ring) ==
  /\ Len(ring) >= 2 =>
       /\ \A i \in DOMAIN buckets :
            (~buckets[i].meta.empty /\ i \in DOMAIN buckets'
               /\ buckets'[i].meta.empty) <=> i = ring[Len(ring)]
       /\ buckets'[h].meta.head
       /\ buckets'[ring[Len(ring) - 1]].meta.probe = h
       /\ buckets'[Erase(Table, k, ring)].key = buckets[ring[Len(ring)]].key
       /\ buckets'[Erase(Table, k, ring)].value
            = buckets[ring[Len(ring)]].value
       /\ \A i \in DOMAIN buckets :
            (\A a \in 1..Len(ring) : ring[a] # i) =>
              (i \in DOMAIN buckets' /\ buckets'[i] = buckets[i])
  /\ Len(ring) = 1 => buckets'[h].meta.empty

\* C31 as stated: when a delete of k removes a key from the chain of h with
\* two or more members, the only bucket that becomes EMPTY is the former
\* tail, bucket h keeps its HEAD bit, the tail's predecessor links to h, the
\* bucket that held k holds the former tail's key and value, and the buckets
\* outside the chain are unchanged; when the chain has one member, bucket h
\* becomes EMPTY.
TailSplice ==
  [][(DeleteReturned /\ Removes(Table, last'.key)) =>
       Spliced(last'.key, hash(last'.key, shift),
               RingSeq(Table, hash(last'.key, shift)))]_vars

\* C31: the same, for the deletes that leave the capacity as it was (the
\* shrink of lines 265-267 does not run)
TailSpliceWithoutShrink ==
  [][(DeleteReturned /\ Removes(Table, last'.key) /\ len' = len) =>
       Spliced(last'.key, hash(last'.key, shift),
               RingSeq(Table, hash(last'.key, shift)))]_vars

\* the last call removed a key from a chain that still has members, and
\* the table did not shrink
SplicedFromChain ==
  /\ Called("delete")
  /\ Retrievable(last.pre[last.key])
  /\ count = last.count0 - 1
  /\ len = last.cap0
  /\ buckets[hash(last.key, shift)].meta.head

\* C32: for every key and every table whose shift is W - log2(capacity),
\* hash(key, shift), computed with the wrapping multiplication, is an index
\* of the array.
HashRange ==
  (last.op = "hash" /\ Pow2(USIZE_BITS - shift) = len) =>
    (last.ret[1] >= 0 /\ last.ret[1] < len)

\* hash of usize::MAX, whose product wraps, is the top index of the largest
\* table
HashedMaxKey ==
  /\ last.op = "hash"
  /\ last.key = MaxKey
  /\ len = Pow2(MaxHashBits)
  /\ last.ret[1] = len - 1

\* C33: in the pointer-linked variants, get(k) returns, and returns None,
\* for every key k that put was never called with, in every state that put
\* calls reach: a fresh table, k = 0 and a home bucket whose next is null
\* included.
LinkedMissingKey ==
  (linked.op = "get" /\ linked.key \notin linked.put) =>
    (linked.t.st = "ok" /\ linked.ret = None)

====
